---- MODULE Spec2Model ----
(***************************************************************************)
(* WasteWise (src/app.py): a Streamlit application over one SQLite         *)
(* database.  The tables are the state; every page handler that writes is  *)
(* one action (each handler issues its statements on one connection and    *)
(* commits once, so a handler is one atomic step).  The conditions a       *)
(* handler tests before it writes are the guards of its action: a run that *)
(* fails one writes nothing, which is a stuttering step.                   *)
(*                                                                         *)
(* users, waste_requests, recycling_batches and rewards are sequences      *)
(* whose index is the AUTOINCREMENT id (no row of them is ever deleted).   *)
(* segregation_records loses rows to INSERT OR REPLACE and no statement    *)
(* reads its id column, so it is the set of its rows without the id.       *)
(* The timestamp columns and preferred_date are written and never read by  *)
(* a statement that writes; they are left out.  Quantities and weights are *)
(* in tenths of a kilogram.                                                *)
(*                                                                         *)
(* st.session_state is private to each browser session.  sessions is the   *)
(* set of user ids some browser session is signed in as; a handler runs    *)
(* for one of them (uid is st.session_state.user['id']) and route_role     *)
(* offers it only to the role of that user.                                *)
(***************************************************************************)
EXTENDS Integers, Sequences, FiniteSets, TLC

VARIABLES
    users,                \* table users: Seq of rows, id = index
    waste_requests,       \* table waste_requests: Seq of rows, id = index
    segregation_records,  \* table segregation_records: set of rows
    recycling_batches,    \* table recycling_batches: Seq of rows, id = index
    rewards,              \* table rewards: Seq of rows, id = index
    sessions,             \* user ids held in some st.session_state.user
    create_error,         \* what the Create User form reported last, "" if nothing
    metric,               \* the value st.metric showed last, NULL before any
    users_cache,          \* st.cache_data entry of cached_users_df, <<>> if none
    reqs_df,              \* the "Requests by Status" frames on screen, <<>> before any
    startup               \* where each running init_db stands

vars == <<users, waste_requests, segregation_records, recycling_batches,
          rewards, sessions, create_error, metric, users_cache, reqs_df, startup>>

(***************************************************************************)
(* Bounds of the model.                                                    *)
(***************************************************************************)
MaxReq == 1          \* rows of waste_requests
MaxBatches == 2      \* rows of recycling_batches
MaxRewards == 2      \* rows of rewards
MaxUsers == 3        \* rows of users
MaxPoints == 2       \* largest point value proposed

(***************************************************************************)
(* Program constants.                                                      *)
(***************************************************************************)
NULL == 0            \* SQL NULL (ids start at 1)
MinQuantity == 1     \* number_input min_value=0.1 kg, in tenths
MinPoints == 1       \* number_input min_value=1

Roles == {"ministry", "citizen", "employee"}

\* st.cache_data without an entry for cached_users_df (a listing has a row)
NoEntry == <<>>

\* cached_users_df.clear(): no entry is left
refresh_users_cache == NoEntry

\* the script runs of main() whose init_db is followed statement by statement
Startups == {1, 2}

Categories == {"mixed", "organic", "recyclable", "hazardous"}

(***************************************************************************)
(* passlib bcrypt: hash() draws a fresh salt, verify() recomputes the      *)
(* digest under the salt stored in the hash.                               *)
(***************************************************************************)
Salts == {"s1", "s2"}

bcrypt_digest(salt, password) == <<salt, password>>

bcrypt_hash(salt, password) == [salt |-> salt, digest |-> bcrypt_digest(salt, password)]

\* a verify that recomputes the digest under one fixed salt
verify_under_first_salt(password, pwh) == pwh.digest = bcrypt_digest("s1", password)

bcrypt_verify(password, pwh) == pwh.digest = bcrypt_digest(pwh.salt, password)

(***************************************************************************)
(* init_db: the seeded ministry account.                                   *)
(***************************************************************************)
AdminUsername == "admin@ministry.gov"

AdminPassword == "admin123"

SeedAdmin(salt) ==
    [username |-> AdminUsername, full_name |-> "Ministry Admin",
     role |-> "ministry", password_hash |-> bcrypt_hash(salt, AdminPassword)]

\* SELECT COUNT(*) FROM users WHERE role='ministry'
MinistryCount(us) == Cardinality({i \in DOMAIN us : us[i].role = "ministry"})

\* route_role: the pages of a role are run only for a signed-in user of it
SignedInAs(uid, role) == uid \in sessions /\ users[uid].role = role

(***************************************************************************)
(* Request lifecycle: SQL statements.                                      *)
(***************************************************************************)
RequestIds == DOMAIN waste_requests

\* INSERT INTO waste_requests (...) VALUES (..., 'requested')
NewRequest(citizen_id, form) ==
    [citizen_id |-> citizen_id, address |-> form.address,
     category |-> form.category, quantity_kg |-> form.quantity,
     status |-> "requested", assigned_employee_id |-> NULL]

\* an UPDATE of the status without the WHERE clause
UpdateStatusEveryRow(reqs, rid, status) ==
    [i \in DOMAIN reqs |-> [reqs[i] EXCEPT !.status = status]]

\* UPDATE waste_requests SET status=? WHERE id=?
UpdateStatus(reqs, rid, status) ==
    [i \in DOMAIN reqs |->
        IF i = rid THEN [reqs[i] EXCEPT !.status = status] ELSE reqs[i]]

\* UPDATE waste_requests SET status='assigned', assigned_employee_id=? WHERE id=?
UpdateAssigned(reqs, rid, employee_id) ==
    [i \in DOMAIN reqs |->
        IF i = rid
        THEN [reqs[i] EXCEPT !.status = "assigned",
                             !.assigned_employee_id = employee_id]
        ELSE reqs[i]]

SegRow(req_id, inp) ==
    [request_id |-> req_id, organic_kg |-> inp.organic_kg,
     recyclable_kg |-> inp.recyclable_kg, hazardous_kg |-> inp.hazardous_kg,
     notes |-> inp.notes]

\* a plain INSERT that no UNIQUE constraint guards
InsertKeepingSegregation(rows, req_id, inp) ==
    rows \cup {SegRow(req_id, inp)}

\* INSERT OR REPLACE INTO segregation_records: request_id is UNIQUE, so the
\* rows in conflict are deleted and the new row is inserted
InsertOrReplaceSegregation(rows, req_id, inp) ==
    {r \in rows : r.request_id # req_id} \cup {SegRow(req_id, inp)}

\* a batch row stamped with the request's assignee instead of the session user
BatchRowOfAssignee(reqs, req_id, inp, uid) ==
    [request_id |-> req_id, material |-> inp.material,
     output_product |-> inp.output_product,
     output_weight_kg |-> inp.output_weight_kg,
     processed_by |-> IF req_id \in DOMAIN reqs
                      THEN reqs[req_id].assigned_employee_id ELSE uid]

\* the row of INSERT INTO recycling_batches (..., processed_by)
BatchRow(reqs, req_id, inp, uid) ==
    [request_id |-> req_id, material |-> inp.material,
     output_product |-> inp.output_product,
     output_weight_kg |-> inp.output_weight_kg, processed_by |-> uid]

(***************************************************************************)
(* Form inputs.                                                            *)
(***************************************************************************)
\* one form the widgets accept, and the calls they refuse: no quantity or a
\* negative one for each category, and a category the selectbox does not offer
RequestForms ==
    {[address |-> "12 Main St", category |-> "organic", quantity |-> 50]}
    \cup {[address |-> "12 Main St", category |-> c, quantity |-> q] :
             c \in Categories, q \in {0, -5}}
    \cup {[address |-> "12 Main St", category |-> "glass", quantity |-> 50]}

RidInputs == 0 .. MaxReq + 1

StatusActions == {"-- select --", "collected", "segregated"}

SegInputs ==
    {[organic_kg |-> 50, recyclable_kg |-> 0, hazardous_kg |-> 0, notes |-> ""],
     [organic_kg |-> 10, recyclable_kg |-> 20, hazardous_kg |-> 5, notes |-> "wet"]}

BatchInputs ==
    {[material |-> "compost", output_product |-> "soil", output_weight_kg |-> 42]}

Employees == {i \in DOMAIN users : users[i].role = "employee"}

\* a form that checks the category and takes any quantity
AnyQuantityForm(form) == form.category \in Categories

\* what the widgets of req_form let through: a category of the selectbox and
\* a quantity of at least min_value
ValidRequestForm(form) ==
    /\ form.category \in Categories
    /\ form.quantity >= MinQuantity

(***************************************************************************)
(* Citizen and employee pages.                                             *)
(***************************************************************************)
citizen_create_request(uid, form) ==
    /\ SignedInAs(uid, "citizen")
    /\ Len(waste_requests) < MaxReq
    /\ ValidRequestForm(form)
    /\ waste_requests' = Append(waste_requests, NewRequest(uid, form))
    /\ UNCHANGED <<users_cache, reqs_df, startup, users, segregation_records, recycling_batches, rewards,
                   sessions, create_error, metric>>

employee_assigned_jobs(uid, rid, action) ==
    /\ SignedInAs(uid, "employee")
    /\ rid > 0
    /\ action # "-- select --"
    /\ waste_requests' = UpdateStatus(waste_requests, rid, action)
    /\ UNCHANGED <<users_cache, reqs_df, startup, users, segregation_records, recycling_batches, rewards,
                   sessions, create_error, metric>>

\* the body under "if submit:" of employee_segregation_record; for an
\* unknown request it reports "Request not found" and returns before any write
save_segregation(req_id, inp) ==
    /\ req_id \in RequestIds
    /\ segregation_records' =
          InsertOrReplaceSegregation(segregation_records, req_id, inp)
    /\ waste_requests' = UpdateStatus(waste_requests, req_id, "segregated")
    /\ UNCHANGED <<users_cache, reqs_df, startup, users, recycling_batches, rewards, sessions, create_error,
                   metric>>

employee_segregation_record(uid, req_id, inp) ==
    /\ SignedInAs(uid, "employee")
    /\ save_segregation(req_id, inp)

employee_recycling_entry(uid, req_id, inp) ==
    /\ SignedInAs(uid, "employee")
    /\ Len(recycling_batches) < MaxBatches
    /\ recycling_batches' =
          Append(recycling_batches, BatchRow(waste_requests, req_id, inp, uid))
    /\ waste_requests' = UpdateStatus(waste_requests, req_id, "recycled")
    /\ UNCHANGED <<users_cache, reqs_df, startup, users, segregation_records, rewards, sessions, create_error,
                   metric>>

(***************************************************************************)
(* Ministry pages.                                                         *)
(***************************************************************************)
ministry_assign_requests(uid, rid, assignee) ==
    /\ SignedInAs(uid, "ministry")
    /\ assignee \in Employees
    /\ rid > 0
    /\ waste_requests' = UpdateAssigned(waste_requests, rid, assignee)
    /\ UNCHANGED <<users_cache, reqs_df, startup, users, segregation_records, recycling_batches, rewards,
                   sessions, create_error, metric>>

(***************************************************************************)
(* The request lifecycle: a database in which the ministry has created one *)
(* citizen and two employees, every account signed in from its own         *)
(* browser, no request yet.  main() runs init_db before every page; with a *)
(* ministry account stored it writes nothing.                              *)
(***************************************************************************)
Population ==
    <<SeedAdmin("s1"),
      [username |-> "cara", full_name |-> "Cara", role |-> "citizen",
       password_hash |-> bcrypt_hash("s1", "pw")],
      [username |-> "emil", full_name |-> "Emil", role |-> "employee",
       password_hash |-> bcrypt_hash("s2", "pw")],
      [username |-> "enzo", full_name |-> "Enzo", role |-> "employee",
       password_hash |-> bcrypt_hash("s1", "pw")]>>

Init ==
    /\ users = Population
    /\ waste_requests = <<>>
    /\ segregation_records = {}
    /\ recycling_batches = <<>>
    /\ rewards = <<>>
    /\ sessions = DOMAIN Population
    /\ create_error = ""
    /\ metric = NULL
    /\ users_cache = NoEntry
    /\ reqs_df = <<>>
    /\ startup = [s \in Startups |-> "idle"]

Next ==
    \/ \E uid \in sessions, form \in RequestForms :
          citizen_create_request(uid, form)
    \/ \E uid \in sessions, rid \in RidInputs, action \in StatusActions :
          employee_assigned_jobs(uid, rid, action)
    \/ \E uid \in sessions, rid \in RidInputs \ {0}, inp \in SegInputs :
          employee_segregation_record(uid, rid, inp)
    \/ \E uid \in sessions, rid \in RidInputs \ {0}, inp \in BatchInputs :
          employee_recycling_entry(uid, rid, inp)
    \/ \E uid \in sessions, rid \in RidInputs, e \in DOMAIN users :
          ministry_assign_requests(uid, rid, e)

Spec == Init /\ [][Next]_vars

(***************************************************************************)
(* Reward ledger.                                                          *)
(***************************************************************************)
RECURSIVE SumPoints(_, _)
\* pandas Series.sum() over the points of the rows in ids (0 for no row)
SumPoints(rws, ids) ==
    IF ids = {} THEN 0
    ELSE LET i == CHOOSE x \in ids : TRUE IN
         rws[i].points + SumPoints(rws, ids \ {i})

\* the total summed over every row of the user, whatever its status
TotalOfAllProposals(rws, uid) ==
    SumPoints(rws, {i \in DOMAIN rws : rws[i].user_id = uid})

\* citizen_rewards: df is the user's rows; total is the sum of points over
\* the approved rows of df when df is not empty, else 0
approved_points_total(rws, uid) ==
    LET df == {i \in DOMAIN rws : rws[i].user_id = uid} IN
    IF df # {}
    THEN SumPoints(rws, {i \in df : rws[i].status = "approved"})
    ELSE 0

\* a proposal row that is stored as approved
NewRewardApproved(uid, points, reason) ==
    [user_id |-> uid, points |-> points, reason |-> reason,
     status |-> "approved", approved_by |-> NULL]

\* INSERT INTO rewards (user_id, points, reason): status defaults to pending
NewReward(uid, points, reason) ==
    [user_id |-> uid, points |-> points, reason |-> reason,
     status |-> "pending", approved_by |-> NULL]

DecisionStatus(decision) == IF decision = "approve" THEN "approved" ELSE "rejected"

\* a decision whose status is final once it has left pending, the decider
\* still recorded
DecideStatusOnce(rws, rid, decision, uid) ==
    [i \in DOMAIN rws |->
        IF i = rid
        THEN [rws[i] EXCEPT !.status = IF rws[i].status = "pending"
                                       THEN DecisionStatus(decision)
                                       ELSE rws[i].status,
                            !.approved_by = uid]
        ELSE rws[i]]

\* an UPDATE that sets the status and leaves approved_by alone
UpdateStatusOnly(rws, rid, decision, uid) ==
    [i \in DOMAIN rws |->
        IF i = rid THEN [rws[i] EXCEPT !.status = DecisionStatus(decision)]
        ELSE rws[i]]

\* UPDATE rewards SET status=?, approved_by=? WHERE id=?
UpdateDecision(rws, rid, decision, uid) ==
    [i \in DOMAIN rws |->
        IF i = rid
        THEN [rws[i] EXCEPT !.status = DecisionStatus(decision),
                            !.approved_by = uid]
        ELSE rws[i]]

PointsInputs == 0 .. MaxPoints

ReasonInputs == {"timely pickup"}

RewardIdInputs == 0 .. MaxRewards + 1

Decisions == {"approve", "reject"}

\* route_role: the proposal form is on a citizen tab and on an employee tab
request_rewards_proposal(uid, points, reason) ==
    /\ SignedInAs(uid, "citizen") \/ SignedInAs(uid, "employee")
    /\ Len(rewards) < MaxRewards
    /\ points >= MinPoints
    /\ rewards' = Append(rewards, NewReward(uid, points, reason))
    /\ UNCHANGED <<users_cache, reqs_df, startup, users, waste_requests, segregation_records,
                   recycling_batches, sessions, create_error, metric>>

citizen_rewards(uid) ==
    /\ SignedInAs(uid, "citizen")
    /\ metric' = approved_points_total(rewards, uid)
    /\ UNCHANGED <<users_cache, reqs_df, startup, users, waste_requests, segregation_records,
                   recycling_batches, rewards, sessions, create_error>>

ministry_rewards(uid, rid, decision) ==
    /\ SignedInAs(uid, "ministry")
    /\ rid > 0
    /\ rewards' = UpdateDecision(rewards, rid, decision, uid)
    /\ UNCHANGED <<users_cache, reqs_df, startup, users, waste_requests, segregation_records,
                   recycling_batches, sessions, create_error, metric>>

(***************************************************************************)
(* The reward ledger: a database with two ministry accounts, one citizen   *)
(* and one employee, every account signed in, no proposal yet.             *)
(***************************************************************************)
RewardPopulation ==
    <<SeedAdmin("s1"),
      [username |-> "mina", full_name |-> "Mina", role |-> "ministry",
       password_hash |-> bcrypt_hash("s2", "pw")],
      [username |-> "cara", full_name |-> "Cara", role |-> "citizen",
       password_hash |-> bcrypt_hash("s1", "pw")],
      [username |-> "emil", full_name |-> "Emil", role |-> "employee",
       password_hash |-> bcrypt_hash("s2", "pw")]>>

InitRewards ==
    /\ users = RewardPopulation
    /\ waste_requests = <<>>
    /\ segregation_records = {}
    /\ recycling_batches = <<>>
    /\ rewards = <<>>
    /\ sessions = DOMAIN RewardPopulation
    /\ create_error = ""
    /\ metric = NULL
    /\ users_cache = NoEntry
    /\ reqs_df = <<>>
    /\ startup = [s \in Startups |-> "idle"]

NextRewards ==
    \/ \E uid \in sessions, points \in PointsInputs, reason \in ReasonInputs :
          request_rewards_proposal(uid, points, reason)
    \/ \E uid \in sessions : citizen_rewards(uid)
    \/ \E uid \in sessions, rid \in RewardIdInputs, decision \in Decisions :
          ministry_rewards(uid, rid, decision)

SpecRewards == InitRewards /\ [][NextRewards]_vars

(***************************************************************************)
(* Credential store: init_db, authenticate, login, user management.        *)
(***************************************************************************)
\* SELECT ... FROM users WHERE username=?  (BINARY collation: exact match)
RowsByUsername(us, username) == {i \in DOMAIN us : us[i].username = username}

\* a users table without the UNIQUE constraint on username
UsernameNeverTaken(us, username) == FALSE

\* UNIQUE(username): the INSERT raises sqlite3.IntegrityError
UsernameTaken(us, username) == RowsByUsername(us, username) # {}

\* authenticate(username, password): fetchone() of the matching rows, then
\* bcrypt.verify; the user id, or NULL for None
authenticate(us, username, password) ==
    LET rows == RowsByUsername(us, username) IN
    IF rows = {} THEN NULL
    ELSE LET uid == CHOOSE i \in rows : \A j \in rows : i <= j IN
         IF bcrypt_verify(password, us[uid].password_hash) THEN uid ELSE NULL

NewUser(uname, fname, role, pwh) ==
    [username |-> uname, full_name |-> fname, role |-> role,
     password_hash |-> pwh]

\* UPDATE users SET password_hash=? WHERE id=?
UpdatePassword(us, target_id, pwh) ==
    [i \in DOMAIN us |->
        IF i = target_id THEN [us[i] EXCEPT !.password_hash = pwh] ELSE us[i]]

UsernameInputs == {AdminUsername, "cara", "Cara"}

FullNameInputs == {"Cara"}

PasswordInputs == {AdminPassword, "pw", ""}

UserIdInputs == 1 .. MaxUsers + 1

\* init_db: seed the ministry admin if no ministry account exists
init_db(salt) ==
    /\ IF MinistryCount(users) = 0
       THEN users' = Append(users, SeedAdmin(salt))
       ELSE UNCHANGED users
    /\ UNCHANGED <<users_cache, reqs_df, startup, waste_requests, segregation_records, recycling_batches,
                   rewards, sessions, create_error, metric>>

\* main() runs init_db before the page, so a page sees a seeded database
page_login(username, password) ==
    /\ MinistryCount(users) > 0
    /\ LET user == authenticate(users, username, password) IN
       IF user # NULL
       THEN sessions' = sessions \cup {user}
       ELSE \* st.error("Invalid credentials. ...")
            UNCHANGED sessions
    /\ UNCHANGED <<users_cache, reqs_df, startup, users, waste_requests, segregation_records,
                   recycling_batches, rewards, create_error, metric>>

\* navbar: "Log out" clears the session state
navbar(uid) ==
    /\ uid \in sessions
    /\ sessions' = sessions \ {uid}
    /\ UNCHANGED <<users_cache, reqs_df, startup, users, waste_requests, segregation_records,
                   recycling_batches, rewards, create_error, metric>>

\* ministry_user_mgmt, tab "Create User"
ministry_user_mgmt_create(uid, uname, fname, role, pwd, salt) ==
    /\ SignedInAs(uid, "ministry")
    /\ role \in Roles
    /\ IF UsernameTaken(users, uname)
       THEN /\ create_error' = "Username already exists."
            /\ UNCHANGED <<users, users_cache>>
       ELSE /\ Len(users) < MaxUsers
            /\ users' = Append(users,
                               NewUser(uname, fname, role, bcrypt_hash(salt, pwd)))
            /\ users_cache' = refresh_users_cache
            /\ create_error' = ""
    /\ UNCHANGED <<reqs_df, startup, waste_requests, segregation_records, recycling_batches,
                   rewards, sessions, metric>>

\* ministry_user_mgmt, tab "Reset Password"
ministry_user_mgmt_reset(uid, target_id, new_pwd, salt) ==
    /\ SignedInAs(uid, "ministry")
    /\ new_pwd # ""
    /\ users' = UpdatePassword(users, target_id, bcrypt_hash(salt, new_pwd))
    /\ UNCHANGED <<users_cache, reqs_df, startup, waste_requests, segregation_records, recycling_batches,
                   rewards, sessions, create_error, metric>>

(***************************************************************************)
(* The credential store, from a database file that does not exist yet.     *)
(***************************************************************************)
InitUsers ==
    /\ users = <<>>
    /\ waste_requests = <<>>
    /\ segregation_records = {}
    /\ recycling_batches = <<>>
    /\ rewards = <<>>
    /\ sessions = {}
    /\ create_error = ""
    /\ metric = NULL
    /\ users_cache = NoEntry
    /\ reqs_df = <<>>
    /\ startup = [s \in Startups |-> "idle"]

NextUsers ==
    \/ \E salt \in Salts : init_db(salt)
    \/ \E u \in UsernameInputs, p \in PasswordInputs : page_login(u, p)
    \/ \E uid \in sessions : navbar(uid)
    \/ \E uid \in sessions, u \in UsernameInputs, f \in FullNameInputs,
          r \in Roles, p \in PasswordInputs \ {""}, salt \in Salts :
          ministry_user_mgmt_create(uid, u, f, r, p, salt)
    \/ \E uid \in sessions, t \in UserIdInputs, p \in PasswordInputs,
          salt \in Salts :
          ministry_user_mgmt_reset(uid, t, p, salt)

SpecUsers == InitUsers /\ [][NextUsers]_vars

(***************************************************************************)
(* Properties of the request lifecycle (Spec).                             *)
(***************************************************************************)
AssignedStatuses == {"assigned", "collected", "segregated", "recycled"}

StatusRank(status) ==
    CASE status = "requested" -> 1
      [] status = "assigned" -> 2
      [] status = "collected" -> 3
      [] status = "segregated" -> 4
      [] status = "recycled" -> 5
      [] OTHER -> 6

\* C1: every request has an assigned employee if and only if its status is
\* assigned, collected, segregated or recycled.
C1_AssignedIffStatus ==
    \A i \in RequestIds :
        (waste_requests[i].assigned_employee_id # NULL)
            <=> (waste_requests[i].status \in AssignedStatuses)

\* C2: no step moves a request to an earlier status of the chain
\* requested -> assigned -> collected -> segregated -> recycled, and no step
\* changes the status of a recycled request.
C2_StatusOnlyForward ==
    [][\A i \in RequestIds :
          /\ StatusRank(waste_requests'[i].status)
                >= StatusRank(waste_requests[i].status)
          /\ waste_requests[i].status = "recycled"
                => waste_requests'[i].status = "recycled"]_vars

\* C3: assign on a request whose status is requested sets the status to
\* assigned and records the employee; on a request in any other status it
\* leaves the request's status and assigned employee unchanged.
C3_AssignOnlyFromRequested ==
    [][\A uid \in sessions, rid \in RequestIds, e \in Employees :
          ministry_assign_requests(uid, rid, e) =>
             IF waste_requests[rid].status = "requested"
             THEN /\ waste_requests'[rid].status = "assigned"
                  /\ waste_requests'[rid].assigned_employee_id = e
             ELSE /\ waste_requests'[rid].status = waste_requests[rid].status
                  /\ waste_requests'[rid].assigned_employee_id
                        = waste_requests[rid].assigned_employee_id]_vars

SegregationOf(rows, rid) == {r \in rows : r.request_id = rid}

AtMostOneSegregation(rows) ==
    \A r1 \in rows, r2 \in rows : r1.request_id = r2.request_id => r1 = r2

\* C4: there is at most one SegregationRecord per request, and
\* record_segregation on an existing request, whatever its status, leaves
\* exactly one record for it, holding the submitted values and notes, and
\* sets the request's status to segregated.
C4_OneSegregationRecord ==
    /\ [] AtMostOneSegregation(segregation_records)
    /\ [][\A rid \in RequestIds, inp \in SegInputs :
             (\E uid \in sessions : employee_segregation_record(uid, rid, inp)) =>
                /\ SegregationOf(segregation_records', rid) =
                      {[request_id |-> rid, organic_kg |-> inp.organic_kg,
                        recyclable_kg |-> inp.recyclable_kg,
                        hazardous_kg |-> inp.hazardous_kg, notes |-> inp.notes]}
                /\ waste_requests'[rid].status = "segregated"]_vars

\* a request that was recycled (it has a batch) and is segregated again, its
\* one record holding the second form's values
C4_Witness ==
    \E r \in segregation_records :
        /\ r.request_id \in RequestIds
        /\ waste_requests[r.request_id].status = "segregated"
        /\ r.organic_kg = 10 /\ r.notes = "wet"
        /\ \E b \in DOMAIN recycling_batches :
              recycling_batches[b].request_id = r.request_id

\* C5: log_recycling_batch on an existing request, whatever its status,
\* appends exactly one batch row referencing the request with the acting
\* employee as processor, leaves the earlier batches as they were, and sets
\* the request's status to recycled.
C5_LogBatchAppends ==
    [][\A uid \in sessions, rid \in RequestIds, inp \in BatchInputs :
          employee_recycling_entry(uid, rid, inp) =>
             /\ recycling_batches' =
                   Append(recycling_batches,
                          [request_id |-> rid, material |-> inp.material,
                           output_product |-> inp.output_product,
                           output_weight_kg |-> inp.output_weight_kg,
                           processed_by |-> uid])
             /\ waste_requests'[rid].status = "recycled"]_vars

\* a recycled request with two batches, logged by two different employees
C5_Witness ==
    \E rid \in RequestIds :
        /\ waste_requests[rid].status = "recycled"
        /\ \E b1 \in DOMAIN recycling_batches, b2 \in DOMAIN recycling_batches :
              /\ b1 < b2
              /\ recycling_batches[b1].request_id = rid
              /\ recycling_batches[b2].request_id = rid
              /\ recycling_batches[b1].processed_by
                    # recycling_batches[b2].processed_by

\* a run of an employee page for uid that writes
EmployeeStep(uid) ==
    \/ \E rid \in RidInputs, action \in StatusActions :
          employee_assigned_jobs(uid, rid, action)
    \/ \E rid \in RidInputs \ {0}, inp \in SegInputs :
          employee_segregation_record(uid, rid, inp)
    \/ \E rid \in RidInputs \ {0}, inp \in BatchInputs :
          employee_recycling_entry(uid, rid, inp)

CitizenStep(uid) == \E form \in RequestForms : citizen_create_request(uid, form)

\* C6: a step that moves a request to collected, segregated or recycled is
\* taken by the employee assigned to that request, and no step of a citizen
\* changes the status of a request.
C6_OnlyAssignedEmployeeAdvances ==
    [][\A uid \in sessions, i \in RequestIds :
          /\ (/\ EmployeeStep(uid)
              /\ waste_requests'[i].status # waste_requests[i].status
              /\ waste_requests'[i].status \in {"collected", "segregated", "recycled"})
                => uid = waste_requests[i].assigned_employee_id
          /\ CitizenStep(uid)
                => waste_requests'[i].status = waste_requests[i].status]_vars

\* C7: no segregation record and no recycling batch references a request
\* that does not exist.
C7_NoRowOfUnknownRequest ==
    /\ \A r \in segregation_records : r.request_id \in RequestIds
    /\ \A b \in DOMAIN recycling_batches :
          recycling_batches[b].request_id \in RequestIds

(***************************************************************************)
(* Properties of the reward ledger (SpecRewards).                          *)
(***************************************************************************)
\* C8: decide on an existing proposal, whatever its status, sets the status
\* to approved or rejected as decided and records the decider.
C8_DecideOverwrites ==
    [][\A uid \in sessions, rid \in DOMAIN rewards, decision \in Decisions :
          ministry_rewards(uid, rid, decision) =>
             /\ rewards'[rid].status =
                   (IF decision = "approve" THEN "approved" ELSE "rejected")
             /\ rewards'[rid].approved_by = uid
             /\ rewards'[rid].user_id = rewards[rid].user_id
             /\ rewards'[rid].points = rewards[rid].points]_vars

\* the citizen was shown approved points, and the proposal has since been
\* rejected by the other ministry account
C8_Witness ==
    /\ metric # NULL /\ metric > 0
    /\ \E rid \in DOMAIN rewards :
          /\ rewards[rid].status = "rejected"
          /\ rewards[rid].approved_by = 2
    /\ \A rid \in DOMAIN rewards : rewards[rid].status # "approved"

RECURSIVE ApprovedSum(_, _, _)
\* the sum of points over the first n proposals that are uid's and approved
ApprovedSum(rws, uid, n) ==
    IF n = 0 THEN 0
    ELSE ApprovedSum(rws, uid, n - 1)
         + (IF rws[n].user_id = uid /\ rws[n].status = "approved"
            THEN rws[n].points ELSE 0)

TotalIsApprovedSum(rws) ==
    \A u \in DOMAIN users :
        /\ approved_points_total(rws, u) = ApprovedSum(rws, u, Len(rws))
        /\ (\A i \in DOMAIN rws : rws[i].user_id = u => rws[i].status # "approved")
              => approved_points_total(rws, u) = 0

\* C9: approved_points_total(user) is the sum of points over the user's
\* approved proposals, 0 when the user has none; the page shows it; approving
\* a pending proposal raises the owner's total by its points; and a step on
\* another user's proposal leaves the total unchanged.
C9_ApprovedPointsTotal ==
    /\ [] TotalIsApprovedSum(rewards)
    /\ [][/\ \A uid \in sessions :
             citizen_rewards(uid) =>
                metric' = ApprovedSum(rewards, uid, Len(rewards))
       /\ \A uid \in sessions, rid \in DOMAIN rewards :
             (ministry_rewards(uid, rid, "approve")
                 /\ rewards[rid].status = "pending") =>
                approved_points_total(rewards', rewards[rid].user_id)
                   = approved_points_total(rewards, rewards[rid].user_id)
                     + rewards[rid].points
       /\ \A u \in DOMAIN users :
             (\A i \in DOMAIN rewards' :
                 rewards'[i].user_id = u =>
                    i \in DOMAIN rewards /\ rewards'[i] = rewards[i])
                => approved_points_total(rewards', u)
                      = approved_points_total(rewards, u)]_vars

\* the citizen (id 3) was shown a total equal to her one approved proposal
\* while a proposal of the employee (id 4) is approved too
C9_Witness ==
    /\ metric # NULL /\ metric > 0
    /\ metric = approved_points_total(rewards, 3)
    /\ \E i \in DOMAIN rewards, j \in DOMAIN rewards :
          /\ rewards[i].user_id = 3 /\ rewards[i].status = "approved"
          /\ rewards[j].user_id = 4 /\ rewards[j].status = "approved"

(***************************************************************************)
(* Properties of the credential store (SpecUsers).                         *)
(***************************************************************************)
UniqueUsernames(us) ==
    \A i \in DOMAIN us, j \in DOMAIN us :
        us[i].username = us[j].username => i = j

\* C10: usernames are unique, and creating a user under a username that
\* exists (exact match) reports the duplicate, adds no user and leaves every
\* stored user unchanged.
C10_UsernamesUnique ==
    /\ [] UniqueUsernames(users)
    /\ [][\A u \in UsernameInputs :
             (\E i \in DOMAIN users : users[i].username = u) =>
                \A uid \in sessions :
                   users[uid].role = "ministry" =>
                      \A f \in FullNameInputs, r \in Roles,
                         p \in PasswordInputs, salt \in Salts :
                         ministry_user_mgmt_create(uid, u, f, r, p, salt) =>
                            /\ users' = users
                            /\ create_error' = "Username already exists."]_vars

\* a duplicate was just refused while "cara" and "Cara" are both stored
C10_Witness ==
    /\ create_error = "Username already exists."
    /\ \E i \in DOMAIN users, j \in DOMAIN users :
          users[i].username = "cara" /\ users[j].username = "Cara"

(***************************************************************************)
(* Further properties of the request lifecycle (Spec).                     *)
(***************************************************************************)
\* C11: a request's status becomes collected only in a step from assigned,
\* and marking collected a request whose status is not assigned changes no
\* request.
C11_CollectedOnlyFromAssigned ==
    [][/\ \A i \in RequestIds :
             (/\ waste_requests'[i].status = "collected"
              /\ waste_requests[i].status # "collected")
                => waste_requests[i].status = "assigned"
       /\ \A uid \in sessions, rid \in RequestIds :
             (/\ employee_assigned_jobs(uid, rid, "collected")
              /\ waste_requests[rid].status # "assigned")
                => waste_requests' = waste_requests]_vars

(***************************************************************************)
(* Further properties of the credential store (SpecUsers).                 *)
(***************************************************************************)
\* the passwords that authenticate under a username
Accepted(us, u) == {p \in PasswordInputs : authenticate(us, u, p) # NULL}

AuthenticateByStoredPassword(us) ==
    \A u \in UsernameInputs :
        /\ RowsByUsername(us, u) = {} => Accepted(us, u) = {}
        /\ RowsByUsername(us, u) # {} => Cardinality(Accepted(us, u)) = 1
        /\ \A p \in Accepted(us, u) : us[authenticate(us, u, p)].username = u

\* C12: authenticate returns the user of a stored username under exactly one
\* password, the one set last by user creation, seeding or password reset,
\* and None for any other password and for an unknown username; after a
\* password reset of a stored user only the new password authenticates; and
\* a sign-in enters the session of the authenticated user only.
C12_AuthenticateLastPassword ==
    /\ [] AuthenticateByStoredPassword(users)
    /\ [][/\ \A u \in UsernameInputs :
                RowsByUsername(users, u) = {} =>
                   \A uid \in sessions, f \in FullNameInputs, r \in Roles,
                      p \in PasswordInputs, salt \in Salts :
                      ministry_user_mgmt_create(uid, u, f, r, p, salt) =>
                         \A q \in PasswordInputs :
                            authenticate(users', u, q) =
                               (IF q = p THEN Len(users) + 1 ELSE NULL)
          /\ \A uid \in sessions, t \in DOMAIN users, p \in PasswordInputs,
                salt \in Salts :
                ministry_user_mgmt_reset(uid, t, p, salt) =>
                   \A q \in PasswordInputs :
                      authenticate(users', users[t].username, q) =
                         (IF q = p THEN t ELSE NULL)
          /\ \A u \in UsernameInputs :
                Accepted(users', u) # Accepted(users, u) =>
                   \/ RowsByUsername(users, u) = {}
                   \/ \E uid \in sessions, t \in RowsByUsername(users, u),
                         p \in PasswordInputs, salt \in Salts :
                         ministry_user_mgmt_reset(uid, t, p, salt)
          /\ \A u \in UsernameInputs, p \in PasswordInputs :
                (page_login(u, p) /\ sessions' # sessions) =>
                   /\ p \in Accepted(users, u)
                   /\ \E i \in RowsByUsername(users, u) :
                         sessions' = sessions \cup {i}]_vars

\* the seeded password was reset: the admin signs in under "pw" and no
\* longer under the seeded password, with a second account stored
C12_Witness ==
    /\ Len(users) >= 2
    /\ authenticate(users, AdminUsername, "pw") = 1
    /\ authenticate(users, AdminUsername, AdminPassword) = NULL
    /\ authenticate(users, "Cara", "pw") = NULL
    /\ 1 \in sessions

(***************************************************************************)
(* Startup: init_db statement by statement.  Every script run calls        *)
(* init_db, and the runs of different browser sessions are threads of one  *)
(* server, so the SELECT COUNT of one run and its INSERT can have the      *)
(* statements of another run between them.  startup[s] is "idle" before    *)
(* the run's SELECT COUNT, "insert" when it counted no ministry account    *)
(* and has the INSERT ahead, "done" when init_db returned, "failed" when   *)
(* its INSERT raised sqlite3.IntegrityError, which init_db does not catch. *)
(***************************************************************************)
\* an INSERT of the seed row that no UNIQUE constraint stops
SeedNeverConflicts(us) == FALSE

\* UNIQUE(username) against the INSERT of the seed row
SeedConflict(us) == RowsByUsername(us, AdminUsername) # {}

\* SELECT COUNT(*) FROM users WHERE role='ministry' and the test of its result
init_db_count(s) ==
    /\ startup[s] = "idle"
    /\ startup' = [startup EXCEPT ![s] =
                      IF MinistryCount(users) = 0 THEN "insert" ELSE "done"]
    /\ UNCHANGED <<users, waste_requests, segregation_records,
                   recycling_batches, rewards, sessions, create_error, metric,
                   users_cache, reqs_df>>

\* pwd_hash = bcrypt.hash("admin123"); INSERT INTO users ...; commit
init_db_insert(s, salt) ==
    /\ startup[s] = "insert"
    /\ IF SeedConflict(users)
       THEN /\ startup' = [startup EXCEPT ![s] = "failed"]
            /\ UNCHANGED users
       ELSE /\ users' = Append(users, SeedAdmin(salt))
            /\ startup' = [startup EXCEPT ![s] = "done"]
    /\ UNCHANGED <<waste_requests, segregation_records, recycling_batches,
                   rewards, sessions, create_error, metric, users_cache,
                   reqs_df>>

\* the script run ends; the next interaction of the session runs main() again
main_rerun(s) ==
    /\ startup[s] \in {"done", "failed"}
    /\ startup' = [startup EXCEPT ![s] = "idle"]
    /\ UNCHANGED <<users, waste_requests, segregation_records,
                   recycling_batches, rewards, sessions, create_error, metric,
                   users_cache, reqs_df>>

NextStartup ==
    \/ \E s \in Startups : init_db_count(s)
    \/ \E s \in Startups, salt \in Salts : init_db_insert(s, salt)
    \/ \E s \in Startups : main_rerun(s)
    \/ \E p \in {AdminPassword, "pw"} : page_login(AdminUsername, p)
    \/ \E uid \in sessions, r \in Roles :
          ministry_user_mgmt_create(uid, "cara", "Cara", r, "pw", "s1")
    \/ \E uid \in sessions, t \in UserIdInputs :
          ministry_user_mgmt_reset(uid, t, "pw", "s2")

SpecStartup == InitUsers /\ [][NextStartup]_vars

SeededOnce(us, st) ==
    /\ Cardinality(RowsByUsername(us, AdminUsername)) <= 1
    /\ (\E s \in Startups : st[s] = "done") => MinistryCount(us) >= 1
    /\ (\E s \in Startups : st[s] = "failed") =>
          Cardinality(RowsByUsername(us, AdminUsername)) = 1

\* C13: however the SELECT COUNT and INSERT of two runs of init_db
\* interleave, at most one seeded account is ever stored and one is stored
\* once an init_db has returned; an init_db step inserts the seeded account
\* when no ministry account exists, inserts nothing when one exists, and
\* leaves every stored user as it was.
C13_SeedingIdempotent ==
    /\ [] SeededOnce(users, startup)
    /\ [][\A s \in Startups :
             /\ init_db_count(s) => users' = users
             /\ \A salt \in Salts :
                   init_db_insert(s, salt) =>
                      /\ \A i \in DOMAIN users :
                            i \in DOMAIN users' /\ users'[i] = users[i]
                      /\ MinistryCount(users) > 0 => users' = users
                      /\ MinistryCount(users) = 0 =>
                            /\ Len(users') = Len(users) + 1
                            /\ users'[Len(users')].username = AdminUsername
                            /\ users'[Len(users')].role = "ministry"
                            /\ MinistryCount(users') = 1]_vars

\* both runs counted no ministry account; one inserted the seed row and the
\* other failed on it, a second ministry account having been created since
C13_Witness ==
    /\ \E s \in Startups, t \in Startups :
          startup[s] = "done" /\ startup[t] = "failed"
    /\ Cardinality(RowsByUsername(users, AdminUsername)) = 1
    /\ MinistryCount(users) = 2

(***************************************************************************)
(* Request creation (Spec).                                                *)
(***************************************************************************)
StoredRequestsValid(reqs) ==
    \A i \in DOMAIN reqs :
        /\ reqs[i].quantity_kg > 0
        /\ reqs[i].category \in {"mixed", "organic", "recyclable", "hazardous"}
        /\ users[reqs[i].citizen_id].role = "citizen"

\* C14: create_request appends one request owned by the calling citizen,
\* holding the form's address, category and quantity, with status requested
\* and no assigned employee, and changes no other request; it is a step only
\* for a positive quantity and a category of mixed, organic, recyclable,
\* hazardous, so no request with another quantity or category is stored.
C14_CreateRequest ==
    /\ [] StoredRequestsValid(waste_requests)
    /\ [][\A uid \in sessions, form \in RequestForms :
             citizen_create_request(uid, form) =>
                /\ form.quantity > 0
                /\ form.category \in {"mixed", "organic", "recyclable", "hazardous"}
                /\ Len(waste_requests') = Len(waste_requests) + 1
                /\ \A i \in DOMAIN waste_requests :
                      waste_requests'[i] = waste_requests[i]
                /\ waste_requests'[Len(waste_requests')] =
                      [citizen_id |-> uid, address |-> form.address,
                       category |-> form.category, quantity_kg |-> form.quantity,
                       status |-> "requested", assigned_employee_id |-> NULL]]_vars

\* a stored request straight after its creation
C14_Witness ==
    /\ Len(waste_requests) = 1
    /\ waste_requests[1].citizen_id = 2
    /\ waste_requests[1].status = "requested"
    /\ waste_requests[1].assigned_employee_id = NULL
    /\ waste_requests[1].quantity_kg = 50

(***************************************************************************)
(* Further properties of the reward ledger (SpecRewards).                  *)
(***************************************************************************)
ProposalsWellFormed(rws) ==
    \A i \in DOMAIN rws :
        /\ rws[i].points > 0
        /\ users[rws[i].user_id].role # "ministry"

\* C15: every stored proposal has more than 0 points and a target user who
\* is not a ministry account; submitting a proposal appends one row with
\* status pending, no decider, the submitted points and the submitting user
\* as target, and leaves every other proposal as it was.
C15_ProposalStartsPending ==
    /\ [] ProposalsWellFormed(rewards)
    /\ [][\A uid \in sessions, points \in PointsInputs, reason \in ReasonInputs :
             request_rewards_proposal(uid, points, reason) =>
                /\ points > 0
                /\ users[uid].role \in {"citizen", "employee"}
                /\ Len(rewards') = Len(rewards) + 1
                /\ \A i \in DOMAIN rewards : rewards'[i] = rewards[i]
                /\ rewards'[Len(rewards')] =
                      [user_id |-> uid, points |-> points, reason |-> reason,
                       status |-> "pending", approved_by |-> NULL]]_vars

\* a pending proposal of the employee stored after an approved one of the
\* citizen
C15_Witness ==
    /\ Len(rewards) = 2
    /\ rewards[1].user_id = 3 /\ rewards[1].status = "approved"
    /\ rewards[2].user_id = 4 /\ rewards[2].status = "pending"
    /\ rewards[2].approved_by = NULL

Decided(rw) == rw.status \in {"approved", "rejected"}

DeciderRecorded(rws) ==
    \A i \in DOMAIN rws :
        /\ rws[i].approved_by # NULL <=> Decided(rws[i])
        /\ rws[i].approved_by # NULL =>
              /\ rws[i].approved_by \in DOMAIN users
              /\ users[rws[i].approved_by].role = "ministry"

\* C16: a proposal has a recorded decider if and only if its status is
\* approved or rejected, and the decider is a ministry account; a step that
\* changes a proposal's status is a decision of a signed-in ministry account;
\* and a proposal that has left pending never returns to pending.
C16_OnlyMinistryDecides ==
    /\ [] DeciderRecorded(rewards)
    /\ [][\A i \in DOMAIN rewards :
             /\ rewards'[i].status # rewards[i].status =>
                   \E uid \in sessions, decision \in Decisions :
                      /\ users[uid].role = "ministry"
                      /\ ministry_rewards(uid, i, decision)
             /\ rewards[i].status # "pending" => rewards'[i].status # "pending"]_vars

\* two decided proposals, one approved by the seeded ministry account and one
\* rejected by the other, after the citizen was shown approved points
C16_Witness ==
    /\ Len(rewards) = 2
    /\ rewards[1].status = "approved" /\ rewards[1].approved_by = 1
    /\ rewards[2].status = "rejected" /\ rewards[2].approved_by = 2
    /\ metric # NULL /\ metric > 0

(***************************************************************************)
(* The cached user directory.  cached_users_df is a st.cache_data function *)
(* without arguments: one entry for the whole server, returned as long as  *)
(* it is there.  The Reset Password tab reads it whenever the ministry     *)
(* pages are drawn.                                                        *)
(***************************************************************************)
\* SELECT id, username, full_name, role, created_at FROM users
UsersListing(us) ==
    [i \in DOMAIN us |->
        [id |-> i, username |-> us[i].username, full_name |-> us[i].full_name,
         role |-> us[i].role]]

\* users_df = cached_users_df(): computed and stored when there is no entry
ministry_user_mgmt_view(uid) ==
    /\ SignedInAs(uid, "ministry")
    /\ users_cache = NoEntry
    /\ users_cache' = UsersListing(users)
    /\ UNCHANGED <<users, waste_requests, segregation_records,
                   recycling_batches, rewards, sessions, create_error, metric,
                   reqs_df, startup>>

NextCache ==
    \/ \E salt \in Salts : init_db(salt)
    \/ page_login(AdminUsername, AdminPassword)
    \/ \E uid \in sessions : ministry_user_mgmt_view(uid)
    \/ \E uid \in sessions, u \in UsernameInputs, r \in {"citizen", "employee"} :
          ministry_user_mgmt_create(uid, u, "Cara", r, "pw", "s1")
    \/ \E uid \in sessions, t \in UserIdInputs \ {1}, salt \in Salts :
          ministry_user_mgmt_reset(uid, t, AdminPassword, salt)

SpecCache == InitUsers /\ [][NextCache]_vars

\* C17: every step that writes the users table leaves the cache of the user
\* directory without an entry, so that the next read recomputes the listing.
C17_WritesInvalidateCache ==
    [][users' # users => users_cache' = NoEntry]_vars

(***************************************************************************)
(* Two requests side by side: the citizen has created two requests, and    *)
(* the ministry account, the citizen and one employee are signed in.       *)
(***************************************************************************)
InitPair ==
    /\ users = Population
    /\ waste_requests =
          <<NewRequest(2, [address |-> "12 Main St", category |-> "organic",
                           quantity |-> 50]),
            NewRequest(2, [address |-> "7 Hill Rd", category |-> "hazardous",
                           quantity |-> 1])>>
    /\ segregation_records = {}
    /\ recycling_batches = <<>>
    /\ rewards = <<>>
    /\ sessions = {1, 2, 3}
    /\ create_error = ""
    /\ metric = NULL
    /\ users_cache = NoEntry
    /\ reqs_df = <<>>
    /\ startup = [s \in Startups |-> "idle"]

NextPair ==
    \/ \E uid \in sessions, rid \in RequestIds, action \in StatusActions :
          employee_assigned_jobs(uid, rid, action)
    \/ \E uid \in sessions, rid \in RequestIds, inp \in SegInputs :
          employee_segregation_record(uid, rid, inp)
    \/ \E uid \in sessions, rid \in RequestIds, inp \in BatchInputs :
          employee_recycling_entry(uid, rid, inp)
    \/ \E uid \in sessions, rid \in RequestIds, e \in DOMAIN users :
          ministry_assign_requests(uid, rid, e)

SpecPair == InitPair /\ [][NextPair]_vars

\* a run of one of the four operations on request rid that writes
OperationOn(rid) ==
    \E uid \in sessions :
        \/ \E e \in Employees : ministry_assign_requests(uid, rid, e)
        \/ \E action \in StatusActions : employee_assigned_jobs(uid, rid, action)
        \/ \E inp \in SegInputs : employee_segregation_record(uid, rid, inp)
        \/ \E inp \in BatchInputs : employee_recycling_entry(uid, rid, inp)

\* C18: assign, status update, record_segregation and log_recycling_batch on
\* request r leave every other request, its segregation record and its
\* batches as they were, and no step changes the owning citizen, address,
\* category or quantity of a request.
C18_RequestsIndependent ==
    [][/\ \A i \in RequestIds :
             /\ i \in DOMAIN waste_requests'
             /\ waste_requests'[i].citizen_id = waste_requests[i].citizen_id
             /\ waste_requests'[i].address = waste_requests[i].address
             /\ waste_requests'[i].category = waste_requests[i].category
             /\ waste_requests'[i].quantity_kg = waste_requests[i].quantity_kg
       /\ \A rid \in RequestIds :
             OperationOn(rid) =>
                \A j \in RequestIds \ {rid} :
                   /\ waste_requests'[j] = waste_requests[j]
                   /\ SegregationOf(segregation_records', j)
                         = SegregationOf(segregation_records, j)
                   /\ \A b \in DOMAIN recycling_batches' :
                         recycling_batches'[b].request_id = j =>
                            /\ b \in DOMAIN recycling_batches
                            /\ recycling_batches'[b] = recycling_batches[b]
                   /\ \A b \in DOMAIN recycling_batches :
                         recycling_batches[b].request_id = j =>
                            recycling_batches'[b] = recycling_batches[b]]_vars

\* request 1 went through assignment, segregation and recycling while
\* request 2 is as it was created
C18_Witness ==
    /\ waste_requests[1].status = "recycled"
    /\ waste_requests[1].assigned_employee_id = 4
    /\ SegregationOf(segregation_records, 1) # {}
    /\ \E b \in DOMAIN recycling_batches : recycling_batches[b].request_id = 1
    /\ waste_requests[2] =
          [citizen_id |-> 2, address |-> "7 Hill Rd", category |-> "hazardous",
           quantity_kg |-> 1, status |-> "requested",
           assigned_employee_id |-> NULL]
    /\ SegregationOf(segregation_records, 2) = {}

(***************************************************************************)
(* Analytics.  ministry_analytics runs three SELECTs and draws their       *)
(* frames; reqs_df is the frame of the first, a set of rows (status, n).   *)
(* The other two are SELECTs of segregation_records and recycling_batches  *)
(* that write nothing either.                                              *)
(***************************************************************************)
\* the statuses the CHECK of waste_requests.status admits
AllStatuses ==
    {"requested", "assigned", "collected", "segregated", "recycled", "cancelled"}

\* a count that has a row for every status, with n = 0 where none is stored
count_of_every_status(reqs) ==
    {[status |-> s, n |-> Cardinality({i \in DOMAIN reqs : reqs[i].status = s})] :
        s \in AllStatuses}

\* SELECT status, COUNT(*) as n FROM waste_requests GROUP BY status
requests_by_status(reqs) ==
    {[status |-> s, n |-> Cardinality({i \in DOMAIN reqs : reqs[i].status = s})] :
        s \in {reqs[i].status : i \in DOMAIN reqs}}

ministry_analytics(uid) ==
    /\ SignedInAs(uid, "ministry")
    /\ reqs_df' = <<requests_by_status(waste_requests)>>
    /\ UNCHANGED <<users, waste_requests, segregation_records,
                   recycling_batches, rewards, sessions, create_error, metric,
                   users_cache, startup>>

\* the store before any request, or with the two requests of InitPair
InitAnalytics == Init \/ InitPair

NextAnalytics ==
    \/ \E uid \in sessions : ministry_analytics(uid)
    \/ \E uid \in sessions, form \in RequestForms :
          citizen_create_request(uid, form)
    \/ \E uid \in sessions, rid \in RequestIds, action \in StatusActions :
          employee_assigned_jobs(uid, rid, action)
    \/ \E uid \in sessions, rid \in RequestIds, inp \in BatchInputs :
          employee_recycling_entry(uid, rid, inp)
    \/ \E uid \in sessions, rid \in RequestIds, e \in Employees :
          ministry_assign_requests(uid, rid, e)

SpecAnalytics == InitAnalytics /\ [][NextAnalytics]_vars

RECURSIVE CountStatus(_, _, _)
\* how many of the first n requests are in status s
CountStatus(reqs, s, n) ==
    IF n = 0 THEN 0
    ELSE CountStatus(reqs, s, n - 1) + (IF reqs[n].status = s THEN 1 ELSE 0)

\* C19: a run of the analytics page changes no table; the frame it shows
\* has, for each status, one row with the number of requests now in that
\* status when there is such a request and no row when there is none; and
\* with no request stored the frame is empty.
C19_AnalyticsPureRead ==
    [][\A uid \in sessions :
          ministry_analytics(uid) =>
             /\ users' = users
             /\ waste_requests' = waste_requests
             /\ segregation_records' = segregation_records
             /\ recycling_batches' = recycling_batches
             /\ rewards' = rewards
             /\ Len(reqs_df') = 1
             /\ \A row \in reqs_df'[1] : row.status \in AllStatuses
             /\ \A s \in AllStatuses :
                   LET k == CountStatus(waste_requests, s, Len(waste_requests)) IN
                   {row \in reqs_df'[1] : row.status = s} =
                      (IF k = 0 THEN {} ELSE {[status |-> s, n |-> k]})
             /\ waste_requests = <<>> => reqs_df'[1] = {}]_vars

\* the frame of a store whose two requests are both collected, shown while
\* the second has since been recycled
C19_Witness ==
    /\ reqs_df = <<{[status |-> "collected", n |-> 2]}>>
    /\ Len(waste_requests) = 2
    /\ waste_requests[2].status = "recycled"

(***************************************************************************)
(* Writes of several sessions to one request (Spec).  No handler carries   *)
(* what it read into its write: each UPDATE names the id only, so two      *)
(* sessions that saw the same request are two writes one after the other.  *)
(***************************************************************************)
ExpectedPrior(status) ==
    CASE status = "assigned" -> "requested"
      [] status = "collected" -> "assigned"
      [] status = "segregated" -> "collected"
      [] status = "recycled" -> "segregated"
      [] OTHER -> "none"

\* C20: a step changes a request only if the request's status before the
\* step is the one expected before the new status, and a request that has an
\* assigned employee keeps that employee, so that of two sessions assigning
\* the same requested request only the first takes effect.
C20_NoLostUpdate ==
    [][\A i \in RequestIds :
          /\ waste_requests'[i] # waste_requests[i] =>
                waste_requests[i].status = ExpectedPrior(waste_requests'[i].status)
          /\ waste_requests[i].assigned_employee_id # NULL =>
                waste_requests'[i].assigned_employee_id
                   = waste_requests[i].assigned_employee_id]_vars

(***************************************************************************)
(* Segregated requests and their records (Spec).                           *)
(***************************************************************************)
\* C21: every request whose status is segregated has a segregation record.
C21_SegregatedHasRecord ==
    \A i \in RequestIds :
        waste_requests[i].status = "segregated" =>
           SegregationOf(segregation_records, i) # {}

====
